---- MODULE Spec2Model ----
(***************************************************************************)
(* A model of diffusion_mnist_denoising.py: the noise schedule built by    *)
(* Diffusion.__init__, the forward corruption (make_noisy / forward), the  *)
(* reverse sampling loop (denoise_at_t / sample), the loss selection of    *)
(* train, and the SSIM loss with its cached smoothing window.              *)
(*                                                                         *)
(* Tensors hold binary floating-point numbers.  The model keeps that: a    *)
(* number is <<kind, m, e>> with kind 0 (finite, value m * 2^e, m of Prec  *)
(* significant bits, 0 as <<0,0,0>>), kind 1 (infinity, sign in m) or      *)
(* kind 2 (NaN).  Results are rounded to nearest (ties to even), overflow  *)
(* to infinity above 2^EMax and flush to zero below 2^-EMax.  float32 is   *)
(* the same format with 24 significant bits and exponent range 127.        *)
(***************************************************************************)
EXTENDS Integers, Sequences, FiniteSets, TLC

\* ------------------------------------------------------------------ bounds
\* significant bits of a number, and the exponent range
Prec == 12
EMax == 40

\* ------------------------------------------------- floating-point numbers
NaN == <<2, 0, 0>>
PInf == <<1, 1, 0>>
NInf == <<1, -1, 0>>
Zero == <<0, 0, 0>>

Abs(n) == IF n < 0 THEN -n ELSE n

Sgn(n) == IF n < 0 THEN -1 ELSE IF n > 0 THEN 1 ELSE 0

IsNaN(a) == a[1] = 2

IsInf(a) == a[1] = 1

IsFinite(a) == a[1] = 0

Inf(sign) == IF sign < 0 THEN NInf ELSE PInf

\* number of bits of n > 0
BitLen(n) == IF n = 0 THEN 0 ELSE CHOOSE k \in 1..31 : n \div 2^(k-1) = 1

\* n / 2^s rounded to nearest, ties to even (n >= 0)
RoundShr(n, s) ==
    IF s = 0 THEN n
    ELSE LET q == n \div 2^s
             r == n % 2^s
             h == 2^(s-1)
         IN  IF r > h \/ (r = h /\ q % 2 = 1) THEN q + 1 ELSE q

\* the element of a one-element set.  The({e : x \in {v}}) is e with x
\* standing for the value of v, which is computed once however often e
\* uses it.
The(S) == CHOOSE x \in S : TRUE

\* the number nearest to sign * n * 2^e (n >= 0)
Norm(sign, n_, e) ==
    The({IF n = 0 THEN Zero
         ELSE The({LET n1 == IF s > 0 THEN RoundShr(n, s) ELSE n * 2^(-s)
                       up == n1 = 2^Prec
                       n2 == IF up THEN 2^(Prec-1) ELSE n1
                       e2 == IF up THEN e + s + 1 ELSE e + s
                       ex == e2 + Prec - 1
                   IN  IF ex > EMax THEN Inf(sign)
                       ELSE IF ex < -EMax THEN Zero
                       ELSE <<0, sign * n2, e2>>
                   : s \in {BitLen(n) - Prec}})
         : n \in {n_}})

FromInt(n) == Norm(Sgn(n), Abs(n), 0)

FSign(a) == Sgn(a[2])

FNeg(a_) ==
    The({IF IsNaN(a) THEN NaN ELSE <<a[1], -a[2], a[3]>> : a \in {a_}})

FAbs(a_) ==
    The({IF IsNaN(a) THEN NaN ELSE <<a[1], Abs(a[2]), a[3]>> : a \in {a_}})

FMul(a_, b_) ==
    The({IF IsNaN(a) \/ IsNaN(b) THEN NaN
         ELSE IF IsInf(a) \/ IsInf(b)
              THEN IF a = Zero \/ b = Zero THEN NaN ELSE Inf(FSign(a) * FSign(b))
         ELSE Norm(FSign(a) * FSign(b), Abs(a[2]) * Abs(b[2]), a[3] + b[3])
         : a \in {a_}, b \in {b_}})

FAdd(a_, b_) ==
    The({IF IsNaN(a) \/ IsNaN(b) THEN NaN
         ELSE IF IsInf(a) /\ IsInf(b) THEN (IF a = b THEN a ELSE NaN)
         ELSE IF IsInf(a) THEN a
         ELSE IF IsInf(b) THEN b
         ELSE IF a = Zero THEN b
         ELSE IF b = Zero THEN a
         ELSE LET hi == IF a[3] >= b[3] THEN a ELSE b
                  lo == IF a[3] >= b[3] THEN b ELSE a
                  d  == hi[3] - lo[3]
              IN  IF d > Prec + 2 THEN hi
                  ELSE LET sum == hi[2] * 2^d + lo[2]
                       IN  Norm(Sgn(sum), Abs(sum), lo[3])
         : a \in {a_}, b \in {b_}})

FSub(a, b) == FAdd(a, FNeg(b))

FDiv(a_, b_) ==
    The({IF IsNaN(a) \/ IsNaN(b) THEN NaN
         ELSE IF IsInf(a) THEN (IF IsInf(b) THEN NaN
                                ELSE Inf(FSign(a) * (IF FSign(b) < 0 THEN -1 ELSE 1)))
         ELSE IF IsInf(b) THEN Zero
         ELSE IF b = Zero THEN (IF a = Zero THEN NaN ELSE Inf(FSign(a)))
         ELSE IF a = Zero THEN Zero
         ELSE LET k == Prec + 2
                  q == (Abs(a[2]) * 2^k) \div Abs(b[2])
              IN  Norm(FSign(a) * FSign(b), q, a[3] - b[3] - k)
         : a \in {a_}, b \in {b_}})

\* a < b; false when either is NaN
FLt(a_, b_) ==
    \E a \in {a_}, b \in {b_} :
        IF IsNaN(a) \/ IsNaN(b) THEN FALSE
        ELSE IF a = b THEN FALSE
        ELSE IF IsInf(a) THEN a = NInf
        ELSE IF IsInf(b) THEN b = PInf
        ELSE IF FSign(a) # FSign(b) THEN FSign(a) < FSign(b)
        ELSE IF FSign(a) > 0
             THEN a[3] < b[3] \/ (a[3] = b[3] /\ a[2] < b[2])
             ELSE a[3] > b[3] \/ (a[3] = b[3] /\ a[2] < b[2])

FLe(a_, b_) ==
    \E a \in {a_}, b \in {b_} : ~IsNaN(a) /\ ~IsNaN(b) /\ (a = b \/ FLt(a, b))

\* torch.clamp(v, lo, hi); a NaN stays a NaN
Clamp(v_, lo, hi) ==
    The({IF IsNaN(v) THEN NaN ELSE IF FLt(v, lo) THEN lo ELSE IF FLt(hi, v) THEN hi ELSE v
         : v \in {v_}})

RECURSIVE ISqrtIn(_, _, _)
\* the largest r in lo..hi with r * r <= n
ISqrtIn(n, lo, hi) ==
    IF lo = hi THEN lo
    ELSE LET mid == (lo + hi + 1) \div 2
         IN  IF mid * mid <= n THEN ISqrtIn(n, mid, hi) ELSE ISqrtIn(n, lo, mid - 1)

FSqrt(a_) ==
    The({IF IsNaN(a) THEN NaN
         ELSE IF a = Zero THEN Zero
         ELSE IF FSign(a) < 0 THEN NaN
         ELSE IF IsInf(a) THEN PInf
         ELSE LET k == IF (a[3] + Prec + 2) % 2 = 0 THEN Prec + 2 ELSE Prec + 3
                  n == a[2] * 2^k
                  r == ISqrtIn(n, 0, 46340)
              IN  Norm(1, r, (a[3] - k) \div 2)
         : a \in {a_}})

\* the rational n / d
Rat(n, d) == FDiv(FromInt(n), FromInt(d))

One == FromInt(1)

Two == FromInt(2)

\* ------------------------------------------------------------------ bounds
\* largest n_times the schedule is built with
MaxSteps == 4

\* ---------------------------------------------------------------- tensors
\* a 1-D tensor is a sequence of numbers; the timestep t of the source is
\* index t + 1 here

RECURSIVE Elements(_, _)
\* <<f[1], ..., f[n]>>
Elements(f, n) == IF n = 0 THEN <<>> ELSE Append(Elements(f, n - 1), f[n])

\* a tensor holds its elements: f over 1..n, each computed once
Tensor(f) == Elements(f, Cardinality(DOMAIN f))

\* torch.linspace(start, end, steps): start + i * step in the lower half,
\* end - (steps - 1 - i) * step in the upper half; [start] when steps = 1
Linspace(start, end, steps) ==
    IF steps = 1 THEN <<start>>
    ELSE LET step == FDiv(FSub(end, start), FromInt(steps - 1))
         IN  Tensor([i \in 1..steps |->
                IF 2 * (i - 1) < steps
                THEN FAdd(start, FMul(FromInt(i - 1), step))
                ELSE FSub(end, FMul(FromInt(steps - i), step))])

RECURSIVE CumprodAt(_, _)
\* element i of torch.cumprod(a, dim=0): the product of a[1..i], left to right
CumprodAt(a, i) == IF i = 1 THEN a[1] ELSE FMul(CumprodAt(a, i - 1), a[i])

\* a plausible slip: the exclusive product, which starts at 1
CumprodShifted(a) ==
    Tensor([i \in 1..Len(a) |-> IF i = 1 THEN One ELSE CumprodAt(a, i - 1)])

Cumprod(a) == Tensor([i \in 1..Len(a) |-> CumprodAt(a, i)])

TSqrt(a) == Tensor([i \in 1..Len(a) |-> FSqrt(a[i])])

OneMinus(a) == Tensor([i \in 1..Len(a) |-> FSub(One, a[i])])

\* ------------------------------------------------------------------ state
VARIABLES
    pc,           \* where the driver is
    raised,       \* the exception that ended the driver, "" if none
    hyper,        \* the arguments of Diffusion(...): beta_1, beta_T, n_times
    self,         \* the Diffusion object's schedule fields
    alpha_bars,   \* the local alpha_bars of Diffusion.__init__
    x_t,          \* sample: the current image estimate, one number per batch element
    t,            \* sample: the loop counter
    steps,        \* sample: the values of t whose update has completed, in order
    last,         \* the arguments and noise of the last denoise_at_t call
    x_0,          \* sample: the returned batch
    idx,          \* the timestep indices the current call passed to extract and the network
    netNaN,       \* whether the network has returned a NaN during the current call
    fwd,          \* forward: the returned perturbed_images, epsilon, pred_epsilon
    rt,           \* a make_noisy call followed by one denoise_at_t call
    loss_type,    \* train: the loss_type argument
    loss_func,    \* train: the loss selected
    epochs,       \* train: the epochs argument
    train_loader, \* train: the batches of the loader
    epoch,        \* train: the outer loop counter
    batch_idx,    \* train: the inner loop counter
    work,         \* train: batches read, forward calls, network calls, optimizer steps
    loss,         \* train: the last loss
    ssim,         \* the SSIMLoss object: window_size, sigma, channel, window
    imgs,         \* SSIMLoss.forward: the arguments img1, img2
    score,        \* SSIMLoss.forward and ssim_loss: the returned values
    callers       \* concurrent SSIMLoss.forward calls: each one's position and what it read

diffVars == <<hyper, self, alpha_bars>>

sampleVars == <<x_t, t, steps, last, x_0>>

callVars == <<idx, netNaN, fwd>>

trainVars == <<loss_type, loss_func, epochs, train_loader, epoch, batch_idx, work, loss>>

ssimVars == <<ssim, imgs, score, callers>>

vars == <<pc, raised, diffVars, sampleVars, callVars, rt, trainVars, ssimVars>>

\* the fields before __init__ has run
Unbuilt ==
    [n_times |-> 0, sqrt_betas |-> <<>>, alphas |-> <<>>, sqrt_alphas |-> <<>>,
     sqrt_one_minus_alpha_bars |-> <<>>, sqrt_alpha_bars |-> <<>>]

\* Diffusion.__init__: the fields it sets from beta_minmax and n_times
InitFields(beta_1, beta_T, n_times) ==
    LET betas == Linspace(beta_1, beta_T, n_times)
        alphas == OneMinus(betas)
        abars == Cumprod(alphas)
    IN  [n_times |-> n_times,
         sqrt_betas |-> TSqrt(betas),
         alphas |-> alphas,
         sqrt_alphas |-> TSqrt(alphas),
         sqrt_one_minus_alpha_bars |-> TSqrt(OneMinus(abars)),
         sqrt_alpha_bars |-> TSqrt(abars)]

\* the local alpha_bars of __init__
InitAlphaBars(beta_1, beta_T, n_times) ==
    Cumprod(OneMinus(Linspace(beta_1, beta_T, n_times)))

\* 0 < beta_min < beta_max < 1 and T >= 1: the spec's input constraints
ValidHyper(h) ==
    /\ FLt(Zero, h.beta_1)
    /\ FLt(h.beta_1, h.beta_T)
    /\ FLt(h.beta_T, One)
    /\ h.n_times >= 1

\* no denoise_at_t call has run yet
NoCall == [t |-> 0, x_in |-> <<>>, eps |-> <<>>, z |-> <<>>, drew |-> FALSE]

NoForward == [perturbed_images |-> <<>>, epsilon |-> <<>>, pred_epsilon |-> <<>>]

NoRoundTrip == [x_zeros |-> <<>>, t |-> 0, epsilon |-> <<>>, noisy |-> <<>>, result |-> <<>>]

NoWork == [reads |-> 0, forwards |-> 0, net_calls |-> 0, opt_steps |-> 0]

NoSsim == [window_size |-> 0, sigma |-> Zero, channel |-> 0,
           window |-> [dtype |-> "", device |-> "", data |-> <<>>]]

NoScore == [forward |-> NaN, ssim_loss |-> NaN]

\* no call of forward or sample has run yet
NoCalls ==
    /\ x_t = <<>>
    /\ t = 0
    /\ steps = <<>>
    /\ last = NoCall
    /\ x_0 = <<>>
    /\ idx = {}
    /\ netNaN = FALSE
    /\ fwd = NoForward
    /\ rt = NoRoundTrip

\* train has not been called
NoTrain ==
    /\ loss_type = ""
    /\ loss_func = ""
    /\ epochs = 0
    /\ train_loader = <<>>
    /\ epoch = 0
    /\ batch_idx = 0
    /\ work = NoWork
    /\ loss = NaN

\* no SSIMLoss object exists
NoSsimUse ==
    /\ ssim = NoSsim
    /\ imgs = <<>>
    /\ score = NoScore
    /\ callers = <<>>

\* Diffusion.__init__.  It checks nothing itself: the one failure is
\* torch.linspace refusing a negative number of steps.
Construct ==
    /\ pc = "new"
    /\ IF hyper.n_times < 0
       THEN /\ pc' = "raised"
            /\ raised' = "RuntimeError"
            /\ UNCHANGED <<self, alpha_bars>>
       ELSE /\ pc' = "ready"
            /\ self' = InitFields(hyper.beta_1, hyper.beta_T, hyper.n_times)
            /\ alpha_bars' = InitAlphaBars(hyper.beta_1, hyper.beta_T, hyper.n_times)
            /\ UNCHANGED raised
    /\ UNCHANGED <<hyper, sampleVars, callVars, rt, trainVars, ssimVars>>

\* ------------------------------------------------- Diffusion's methods
\* a batch holds one number per sample: every operation below is elementwise
\* over the pixels of a sample, with one coefficient per sample

\* the indices gather accepts for a
InRange(a, ts) == \A i \in 1..Len(ts) : ts[i] >= 0 /\ ts[i] < Len(a)

\* extract(a, t, x_shape): a[t[i]] for each sample i
Extract(a, ts) ==
    [i \in 1..Len(ts) |-> IF ts[i] >= 0 /\ ts[i] < Len(a) THEN a[ts[i] + 1] ELSE NaN]

\* scale_to_minus_one_to_one
ScaleToMinusOneToOne(x) == [i \in 1..Len(x) |-> FSub(FMul(x[i], Two), One)]

\* reverse_scale_to_zero_to_one
ReverseScaleToZeroToOne(x) == [i \in 1..Len(x) |-> FMul(FAdd(x[i], One), Rat(1, 2))]

\* a plausible slip: the two coefficients exchanged
MakeNoisySwapped(obj, x_zeros, ts, epsilon) ==
    LET sqrt_alpha_bar == Extract(obj.sqrt_alpha_bars, ts)
        sqrt_one_minus_alpha_bar == Extract(obj.sqrt_one_minus_alpha_bars, ts)
    IN  [i \in 1..Len(x_zeros) |->
            FAdd(FMul(x_zeros[i], sqrt_one_minus_alpha_bar[i]),
                 FMul(epsilon[i], sqrt_alpha_bar[i]))]

\* make_noisy(x_zeros, t) with the drawn epsilon: noisy_sample
MakeNoisy(obj, x_zeros, ts, epsilon) ==
    LET sqrt_alpha_bar == Extract(obj.sqrt_alpha_bars, ts)
        sqrt_one_minus_alpha_bar == Extract(obj.sqrt_one_minus_alpha_bars, ts)
    IN  [i \in 1..Len(x_zeros) |->
            FAdd(FMul(x_zeros[i], sqrt_alpha_bar[i]),
                 FMul(epsilon[i], sqrt_one_minus_alpha_bar[i]))]

\* a plausible slip: noise injected at every step but the last
DrawsNoiseUntilLast(step) == step > 0

\* denoise_at_t: whether z is drawn from randn (else it is zeros)
DrawsNoise(step) == step > 1

\* denoise_at_t: the injected noise z, given what randn would draw
InjectedNoise(step, zdraw) ==
    IF DrawsNoise(step) THEN zdraw ELSE [i \in 1..Len(zdraw) |-> Zero]

\* a plausible slip: the update returned without the clamp
UpdateUnclamped(v) == v

\* denoise_at_t: the returned x_t_minus_1.clamp(-1., 1)
UpdateClamp(v) == Clamp(v, FNeg(One), One)

\* denoise_at_t(x_t, timestep, t) with the network's epsilon_pred and the
\* randn draw for z
DenoiseAtT(obj, x, timestep, step, epsilon_pred, zdraw) ==
    LET z == InjectedNoise(step, zdraw)
        alpha == Extract(obj.alphas, timestep)
        sqrt_alpha == Extract(obj.sqrt_alphas, timestep)
        sqrt_one_minus_alpha_bar == Extract(obj.sqrt_one_minus_alpha_bars, timestep)
        sqrt_beta == Extract(obj.sqrt_betas, timestep)
    IN  [i \in 1..Len(x) |->
            UpdateClamp(
                FAdd(FMul(FDiv(One, sqrt_alpha[i]),
                          FSub(x[i],
                               FMul(FDiv(FSub(One, alpha[i]), sqrt_one_minus_alpha_bar[i]),
                                    epsilon_pred[i]))),
                     FMul(sqrt_beta[i], z[i])))]

\* a plausible slip: the sweep started at n_times
RangeStartInclusive(n) == n

\* range(n_times - 1, -1, -1): the first value
RangeStart(n) == n - 1

\* a plausible slip: the sweep stopped before step 0
RangeHasAboveZero(step) == step > 0

\* range(n_times - 1, -1, -1): whether t is still in the range
RangeHas(step) == step > -1

\* torch.randint(low, high): the values it can draw
RandInt(low, high) == low..(high - 1)

\* --------------------------------------------------------- the SSIM loss
RECURSIVE ExpPos(_)
\* e^y for a finite y >= 0: the Taylor sum below 1/2, else the square of e^(y/2)
ExpPos(y_) ==
    The({IF FLt(y, Rat(1, 2))
         THEN The({FAdd(FAdd(FAdd(FAdd(FAdd(FAdd(One, y), t2), t3), t4), t5), t6)
                   : t2 \in {FDiv(FMul(y, y), FromInt(2))},
                     t3 \in {FDiv(FMul(FMul(y, y), y), FromInt(6))},
                     t4 \in {FDiv(FMul(FMul(y, y), FMul(y, y)), FromInt(24))},
                     t5 \in {FDiv(FMul(FMul(FMul(y, y), FMul(y, y)), y), FromInt(120))},
                     t6 \in {FDiv(FMul(FMul(FMul(y, y), FMul(y, y)), FMul(y, y)),
                                  FromInt(720))}})
         ELSE The({FMul(h, h) : h \in {ExpPos(FMul(y, Rat(1, 2)))}})
         : y \in {y_}})

\* torch.exp
FExp(a_) ==
    The({IF IsNaN(a) THEN NaN
         ELSE IF a = PInf THEN PInf
         ELSE IF a = NInf THEN Zero
         ELSE IF FSign(a) >= 0 THEN ExpPos(a)
         ELSE FDiv(One, ExpPos(FNeg(a)))
         : a \in {a_}})

RECURSIVE SumTo(_, _)
\* the sum of a[1..n], left to right
SumTo(a, n) == IF n = 0 THEN Zero ELSE FAdd(SumTo(a, n - 1), a[n])

Sum(a_) == The({SumTo(a, Len(a)) : a \in {a_}})

\* the weights exp(-coord^2 / (2 sigma^2)) before normalisation
GaussianWindowRaw(size, sigma_) ==
    The({Tensor([i \in 1..size |->
            LET coord == FSub(FromInt(i - 1), FDiv(FromInt(size - 1), Two))
            IN  FExp(FDiv(FNeg(FMul(coord, coord)), FMul(Two, FMul(sigma, sigma))))])
         : sigma \in {sigma_}})

\* gaussian_window(size, sigma)
GaussianWindow(size, sigma) ==
    The({Tensor([i \in 1..size |-> FDiv(g[i], total)])
         : g \in {GaussianWindowRaw(size, sigma)},
           total \in {Sum(GaussianWindowRaw(size, sigma))}})

\* create_window(window_size, sigma, 1): the outer product, as rows
CreateWindow(window_size, sigma) ==
    The({Tensor([u \in 1..window_size |->
                   Tensor([v \in 1..window_size |-> FMul(w[u], w[v])])])
         : w \in {GaussianWindow(window_size, sigma)}})

\* an image is a sequence of rows; a batch of one single-channel image
Height(img) == Len(img)

Width(img) == Len(img[1])

\* pixel (r, c) of img padded with zeros
Padded(img, r, c) ==
    IF r >= 1 /\ r <= Height(img) /\ c >= 1 /\ c <= Width(img) THEN img[r][c] ELSE Zero

\* F.conv2d(img, window, padding=p, groups=1) for one channel
Conv2d(img_, window_, p) ==
    The({LET k == Len(window)
         IN  Tensor([i \in 1..(Height(img) + 2 * p - k + 1) |->
               Tensor([j \in 1..(Width(img) + 2 * p - k + 1) |->
                  Sum(Tensor([u \in 1..k |->
                     Sum(Tensor([v \in 1..k |->
                        FMul(window[u][v],
                             Padded(img, i + u - 1 - p, j + v - 1 - p))]))]))])])
         : img \in {img_}, window \in {window_}})

\* a * b of two images of one shape, elementwise
Times(a_, b_) ==
    The({Tensor([i \in 1..Len(a) |->
                   Tensor([j \in 1..Len(a[1]) |-> FMul(a[i][j], b[i][j])])])
         : a \in {a_}, b \in {b_}})

\* the elements of an image, row by row
Flat(a_) ==
    The({Tensor([n \in 1..(Len(a) * Len(a[1])) |->
                   a[((n - 1) \div Len(a[1])) + 1][((n - 1) % Len(a[1])) + 1]])
         : a \in {a_}})

\* a plausible slip: .sum() for .mean()
SumAll(a) == Sum(Flat(a))

\* tensor.mean(): the sum over all elements by their number
Mean(a) == The({FDiv(Sum(flat), FromInt(Len(flat))) : flat \in {Flat(a)}})

\* the stability constants 0.01 ** 2 and 0.03 ** 2
C1 == Rat(1, 10000)

C2 == Rat(9, 10000)

\* conv - m1 * m2, elementwise: sigma1_sq, sigma2_sq and sigma12
Centered(conv_, m1_, m2_) ==
    The({Tensor([i \in 1..Len(conv) |-> Tensor([j \in 1..Len(conv[1]) |->
            FSub(conv[i][j], FMul(m1[i][j], m2[i][j]))])])
         : conv \in {conv_}, m1 \in {m1_}, m2 \in {m2_}})

\* lines 46-49: the clamped ssim_map
SsimMap(mu1_, mu2_, sigma1_sq_, sigma2_sq_, sigma12_) ==
    The({Tensor([i \in 1..Len(mu1) |-> Tensor([j \in 1..Len(mu1[1]) |->
            Clamp(FDiv(FMul(FAdd(FMul(FMul(Two, mu1[i][j]), mu2[i][j]), C1),
                            FAdd(FMul(Two, sigma12[i][j]), C2)),
                       FMul(FAdd(FAdd(FMul(mu1[i][j], mu1[i][j]),
                                      FMul(mu2[i][j], mu2[i][j])), C1),
                            FAdd(FAdd(sigma1_sq[i][j], sigma2_sq[i][j]), C2))),
                  Zero, One)])])
         : mu1 \in {mu1_}, mu2 \in {mu2_}, sigma1_sq \in {sigma1_sq_},
           sigma2_sq \in {sigma2_sq_}, sigma12 \in {sigma12_}})

\* SSIMLoss.forward, lines 40-50: the score from the five smoothed images
\* conv(img1), conv(img2), conv(img1 * img1), conv(img2 * img2), conv(img1 * img2)
SsimScore(mu1_, mu2_, c11, c22, c12) ==
    The({Mean(SsimMap(mu1, mu2, Centered(c11, mu1, mu1), Centered(c22, mu2, mu2),
                      Centered(c12, mu1, mu2)))
         : mu1 \in {mu1_}, mu2 \in {mu2_}})

\* the image the n-th conv2d of forward smooths (lines 40-44)
ConvInput(n, img1, img2) ==
    IF n = 1 THEN img1
    ELSE IF n = 2 THEN img2
    ELSE IF n = 3 THEN Times(img1, img1)
    ELSE IF n = 4 THEN Times(img2, img2)
    ELSE Times(img1, img2)

\* SSIMLoss.forward(img1, img2), lines 40-50, with the window it convolves with
SsimForward(window, window_size, img1, img2) ==
    SsimScore(Conv2d(ConvInput(1, img1, img2), window, window_size \div 2),
              Conv2d(ConvInput(2, img1, img2), window, window_size \div 2),
              Conv2d(ConvInput(3, img1, img2), window, window_size \div 2),
              Conv2d(ConvInput(4, img1, img2), window, window_size \div 2),
              Conv2d(ConvInput(5, img1, img2), window, window_size \div 2))

\* ------------------------------------------- specification: the schedule
\* beta_minmax values tried, valid and not
BuildBetas ==
    {FNeg(Rat(1, 8)), Zero, Rat(1, 2^20), Rat(1, 2^19), Rat(1, 2^12), Rat(1, 64), Rat(1, 8),
     Rat(1, 2), Rat(9, 10), Rat(99, 100), One, Rat(3, 2)}

BuildInit ==
    /\ pc = "new"
    /\ hyper \in [beta_1 : BuildBetas, beta_T : BuildBetas, n_times : -1..MaxSteps]
    /\ self = Unbuilt
    /\ alpha_bars = <<>>
    /\ raised = ""
    /\ NoCalls
    /\ NoTrain
    /\ NoSsimUse

BuildNext == Construct

SpecBuild == BuildInit /\ [][BuildNext]_vars

\* C4: building the schedule with hyperparameters that violate
\* 0 < beta_min < beta_max < 1 or T >= 1 fails with InvalidHyperparameter and
\* produces no schedule.
C4_InvalidHyperparameterRejected ==
    (pc # "new" /\ ~ValidHyper(hyper)) =>
        (raised = "InvalidHyperparameter" /\ self = Unbuilt)

Built == pc = "ready" /\ ValidHyper(hyper)

\* alpha[i] = 1 - beta[i], alpha_bar[0] = alpha[0], and alpha_bar[t] is the
\* left-to-right product alpha_bar[t-1] * alpha[t]
IsRunningProduct ==
    /\ Len(alpha_bars) = hyper.n_times
    /\ self.alphas = OneMinus(Linspace(hyper.beta_1, hyper.beta_T, hyper.n_times))
    /\ alpha_bars[1] = self.alphas[1]
    /\ \A i \in 2..Len(alpha_bars) : alpha_bars[i] = FMul(alpha_bars[i-1], self.alphas[i])

\* C8 as stated: for every valid (beta_min, beta_max, T) alpha_bar is the
\* left-to-right product of alpha, alpha_bar[0] = alpha[0], and alpha_bar is
\* strictly decreasing in t.
C8_AlphaBarStrictlyDecreasing ==
    Built => /\ IsRunningProduct
             /\ \A i \in 2..Len(alpha_bars) : FLt(alpha_bars[i], alpha_bars[i-1])

\* C8 as amended: the same, with alpha_bar non-increasing in t (consecutive
\* entries are equal once rounding absorbs the factor or the product
\* underflows to 0).
C8_AlphaBarNonIncreasing ==
    Built => /\ IsRunningProduct
             /\ \A i \in 2..Len(alpha_bars) : FLe(alpha_bars[i], alpha_bars[i-1])

\* C8 witness: a valid schedule of several steps where the product decreases
\* at first and then repeats a value.
C8_Witness ==
    /\ Built
    /\ hyper.n_times >= 3
    /\ \E i \in 2..Len(alpha_bars) : FLt(alpha_bars[i], alpha_bars[i-1])
    /\ \E i \in 2..Len(alpha_bars) : alpha_bars[i] = alpha_bars[i-1]

\* ------------------------------ specification: forward and sample calls
\* largest n_times of a sampling run
MaxSampleSteps == 3

\* batch sizes of a call: the elements of a batch never interact (every
\* tensor operation is elementwise, with one coefficient per sample)
BatchSizes == {1, 2}

\* what randn draws (a Gaussian draw is not 0)
RandnVals == {FNeg(Rat(3, 2)), Rat(1, 2)}

\* what the denoiser network returns: it is opaque, so any number
NetVals == {NaN, NInf, Rat(1, 2)}

\* pixel values of a training image, in [0, 1]
ImageVals == {Zero, One}

\* valid beta_minmax pairs; the first is so small that 1 - beta rounds to 1
SampleBetas == {<<Rat(1, 2^20), Rat(1, 2^19)>>, <<Rat(1, 64), Rat(1, 8)>>, <<Rat(1, 8), Rat(1, 2)>>}

Batches(S) == UNION {[1..k -> S] : k \in BatchSizes}

HasNaN(x) == \E i \in 1..Len(x) : IsNaN(x[i])

SpecInit ==
    /\ pc = "new"
    /\ \E b \in SampleBetas, n \in 1..MaxSampleSteps :
          hyper = [beta_1 |-> b[1], beta_T |-> b[2], n_times |-> n]
    /\ self = Unbuilt
    /\ alpha_bars = <<>>
    /\ raised = ""
    /\ NoCalls
    /\ NoTrain
    /\ NoSsimUse

\* Diffusion.forward(x_zeros): one training step's corruption and prediction
Forward ==
    /\ pc = "ready"
    /\ \E x \in Batches(ImageVals) :
       \E ts \in [1..Len(x) -> RandInt(0, self.n_times)] :
       \E epsilon \in [1..Len(x) -> RandnVals] :
       \E pred_epsilon \in [1..Len(x) -> NetVals] :
          IF InRange(self.sqrt_alpha_bars, ts)
          THEN /\ fwd' = [perturbed_images |->
                             MakeNoisy(self, ScaleToMinusOneToOne(x), ts, epsilon),
                          epsilon |-> epsilon,
                          pred_epsilon |-> pred_epsilon]
               /\ idx' = {ts[i] : i \in 1..Len(ts)}
               /\ netNaN' = HasNaN(pred_epsilon)
               /\ pc' = "forwarded"
               /\ UNCHANGED raised
          ELSE /\ pc' = "raised"
               /\ raised' = "IndexError"
               /\ idx' = {ts[i] : i \in 1..Len(ts)}
               /\ UNCHANGED <<fwd, netNaN>>
    /\ UNCHANGED <<diffVars, sampleVars, rt, trainVars, ssimVars>>

\* sample(N), line 124: the initial noise
SampleBegin ==
    /\ pc = "ready"
    /\ \E noise \in Batches(RandnVals) :
          /\ x_t' = noise
          /\ t' = RangeStart(self.n_times)
    /\ steps' = <<>>
    /\ last' = NoCall
    /\ x_0' = <<>>
    /\ idx' = {}
    /\ netNaN' = FALSE
    /\ fwd' = NoForward
    /\ pc' = "loop"
    /\ UNCHANGED <<diffVars, raised, rt, trainVars, ssimVars>>

\* sample(N), lines 125-127: one iteration of the loop, the whole of
\* denoise_at_t with its network call
DenoiseStep ==
    /\ pc = "loop"
    /\ RangeHas(t)
    /\ LET timestep == [i \in 1..Len(x_t) |-> t]
       IN  \E epsilon_pred \in [1..Len(x_t) -> NetVals] :
           \E zdraw \in (IF DrawsNoise(t) THEN [1..Len(x_t) -> RandnVals]
                                            ELSE {[i \in 1..Len(x_t) |-> Zero]}) :
              IF InRange(self.alphas, timestep)
              THEN /\ last' = [t |-> t, x_in |-> x_t, eps |-> epsilon_pred,
                               z |-> InjectedNoise(t, zdraw), drew |-> DrawsNoise(t)]
                   /\ x_t' = DenoiseAtT(self, x_t, timestep, t, epsilon_pred, zdraw)
                   /\ steps' = Append(steps, t)
                   /\ t' = t - 1
                   /\ idx' = idx \cup {t}
                   /\ netNaN' = (netNaN \/ HasNaN(epsilon_pred))
                   /\ UNCHANGED <<pc, raised>>
              ELSE /\ pc' = "raised"
                   /\ raised' = "IndexError"
                   /\ idx' = idx \cup {t}
                   /\ UNCHANGED <<x_t, last, steps, t, netNaN>>
    /\ UNCHANGED <<diffVars, x_0, fwd, rt, trainVars, ssimVars>>

\* sample(N), lines 128-129: the range is exhausted
SampleReturn ==
    /\ pc = "loop"
    /\ ~RangeHas(t)
    /\ x_0' = ReverseScaleToZeroToOne(x_t)
    /\ pc' = "returned"
    /\ UNCHANGED <<diffVars, raised, x_t, t, steps, last, callVars, rt, trainVars, ssimVars>>

Next == Construct \/ Forward \/ SampleBegin \/ DenoiseStep \/ SampleReturn

Spec == SpecInit /\ [][Next]_vars

\* the sampling run alone
SampleNext == Construct \/ SampleBegin \/ DenoiseStep \/ SampleReturn

\* a sample call that has started runs on: the loop is sequential code, and
\* every iteration and the return after the last one get executed
SpecSample ==
    SpecInit /\ [][SampleNext]_vars /\ WF_vars(DenoiseStep) /\ WF_vars(SampleReturn)

\* ------------------------------------------------------ claims on Spec
\* from, from - 1, ..., to
Countdown(from, to) == [i \in 1..(from - to + 1) |-> from - i + 1]

Sampling == pc \in {"loop", "returned"}

Updated == Sampling /\ steps # <<>>

\* C1: sample(N) performs exactly T updates, t taking T-1, T-2, ..., 0 in
\* order, none skipped or repeated; each update takes the previous update's
\* output as its input; the call returns right after the update at t = 0.
\* A call that has started returns: t starts at T-1, every update lowers it
\* by one, and at -1 the only step is the return.
C1_SampleSweepsEveryStepOnce ==
    /\ [](Sampling => /\ raised = ""
                      /\ t >= -1
                      /\ steps = Countdown(hyper.n_times - 1, t + 1))
    /\ [](pc = "returned" => (Len(steps) = hyper.n_times /\ steps[Len(steps)] = 0))
    /\ [][(pc = "loop" /\ t >= 0) =>
            /\ pc' = "loop"
            /\ t' = t - 1
            /\ steps' = Append(steps, t)
            /\ last'.x_in = x_t
            /\ x_t' = DenoiseAtT(self, x_t, [i \in 1..Len(x_t) |-> t], t,
                                 last'.eps, last'.z)]_vars
    /\ [][(pc = "loop" /\ t = -1) => (pc' = "returned" /\ x_t' = x_t)]_vars
    /\ (pc = "loop") ~> (pc = "returned")

\* C1 witness: a run of three updates has returned.
C1_Witness == pc = "returned" /\ steps = <<2, 1, 0>> /\ Len(x_t) = 2

\* C2: in every update z is a randn draw exactly when t > 1 and all zero
\* otherwise; so the updates at t = 1 and t = 0 (the only update when
\* T = 1) give a result that depends on x and the predicted noise alone.
C2_NoiseOnlyAboveStepOne ==
    Updated =>
        /\ last.t = steps[Len(steps)]
        /\ last.drew <=> last.t > 1
        /\ last.drew => \A i \in 1..Len(last.z) : last.z[i] \in RandnVals
        /\ ~last.drew => \A i \in 1..Len(last.z) : last.z[i] = Zero
        /\ last.t <= 1 =>
              \A zdraw \in [1..Len(x_t) -> RandnVals] :
                 x_t = DenoiseAtT(self, last.x_in, [i \in 1..Len(x_t) |-> last.t],
                                  last.t, last.eps, zdraw)
        /\ hyper.n_times = 1 => ~last.drew

\* C2 witness: the update at t = 1 has run without noise, after a noisy one.
C2_Witness ==
    /\ pc = "loop"
    /\ steps = <<2, 1>>
    /\ ~last.drew
    /\ last.z = <<Zero, Zero>>

InRangeOf(x, lo, hi) == \A i \in 1..Len(x) : FLe(lo, x[i]) /\ FLe(x[i], hi)

SampleInRange ==
    /\ Updated => InRangeOf(x_t, FNeg(One), One)
    /\ pc = "returned" =>
          /\ x_0 = [i \in 1..Len(x_t) |-> FMul(FAdd(x_t[i], One), Rat(1, 2))]
          /\ InRangeOf(x_0, Zero, One)

\* no coefficient of the update is 0/0: 1 - alpha[t] and 1 - alpha_bar[t]
\* have not rounded to 0
NonDegenerate(obj) ==
    \A i \in 1..obj.n_times :
        FLt(obj.alphas[i], One) /\ FLt(Zero, obj.sqrt_one_minus_alpha_bars[i])

\* C3 as stated: whatever the network returns, x after every update lies in
\* [-1, 1] and the returned sample is (x + 1) / 2 and lies in [0, 1] (here
\* on the schedules whose coefficients are all well defined).
C3_SampleAlwaysInRange == NonDegenerate(self) => SampleInRange

\* C3 as amended: the same, for a network that returns no NaN (infinities
\* included) and a schedule whose 1 - alpha[t] and 1 - alpha_bar[t] are not
\* rounded to 0; clamp passes a NaN through.
C3_SampleInRangeUnlessNaN == (~netNaN /\ NonDegenerate(self)) => SampleInRange

\* C3 witness: a run has returned in which the network answered with an
\* infinity and with a finite value.
C3_Witness ==
    /\ pc = "returned"
    /\ ~netNaN
    /\ NonDegenerate(self)
    /\ hyper.n_times >= 2
    /\ last.eps = <<NInf, Rat(1, 2)>>

\* C10: every timestep index passed to extract and to the network by forward
\* or sample lies in [0, T), so extract never fails on an index.
C10_TimestepsInRange ==
    pc # "new" => (idx \subseteq 0..(self.n_times - 1) /\ raised # "IndexError")

\* C10 witness: a forward call has drawn the two ends of [0, T) for the two
\* samples of a batch.
C10_Witness ==
    /\ pc = "forwarded"
    /\ self.n_times >= 2
    /\ idx = {0, self.n_times - 1}

\* ------------------------------------- specification: one SSIMLoss call
\* largest window_size and image width tried
MaxWindow == 3
MaxWidth == 2

\* sigma values tried: 0, one so small that every off-centre weight
\* underflows, and ordinary ones
SigmaVals == {Zero, Rat(1, 64), Rat(1, 2), Rat(3, 2)}

\* pixel values in [0, 1]
SsimPixels == {Zero, Rat(1, 2), One}

\* single-channel images of one row
SsimImages == UNION {[1..1 -> [1..w -> SsimPixels]] : w \in 1..MaxWidth}

\* the two images of a call: of one shape, the second the first itself or a
\* black-and-white one
SsimPairs ==
    {p \in SsimImages \X SsimImages :
        /\ Len(p[1][1]) = Len(p[2][1])
        /\ p[2] = p[1] \/ \A j \in 1..Len(p[2][1]) : p[2][1][j] \in {Zero, One}}

SsimInit ==
    /\ pc = "new"
    /\ raised = ""
    /\ hyper = [beta_1 |-> Zero, beta_T |-> Zero, n_times |-> 0]
    /\ self = Unbuilt
    /\ alpha_bars = <<>>
    /\ NoCalls
    /\ NoTrain
    /\ \E ws \in 1..MaxWindow, sg \in SigmaVals :
          ssim = [NoSsim EXCEPT !.window_size = ws, !.sigma = sg]
    /\ imgs \in SsimPairs
    /\ score = NoScore
    /\ callers = <<>>

\* SSIMLoss.__init__
SsimConstruct ==
    /\ pc = "new"
    /\ ssim' = [ssim EXCEPT !.channel = 1,
                            !.window = [dtype |-> "float32", device |-> "cpu",
                                        data |-> CreateWindow(ssim.window_size, ssim.sigma)]]
    /\ pc' = "ready"
    /\ UNCHANGED <<raised, diffVars, sampleVars, callVars, rt, trainVars, imgs, score, callers>>

\* ssim_loss(img1, img2) on float32 cpu images: forward, then 1 - score
SsimLossCall ==
    /\ pc = "ready"
    /\ \E s \in {SsimForward(ssim.window.data, ssim.window_size, imgs[1], imgs[2])} :
          score' = [forward |-> s, ssim_loss |-> FSub(One, s)]
    /\ pc' = "returned"
    /\ UNCHANGED <<raised, diffVars, sampleVars, callVars, rt, trainVars, ssim, imgs, callers>>

SsimNext == SsimConstruct \/ SsimLossCall

SpecSsim == SsimInit /\ [][SsimNext]_vars

SameImages == pc = "returned" /\ imgs[1] = imgs[2]

\* C9 as stated: for any window_size and sigma and any image a with values
\* in [0, 1], forward(a, a) is 1.0 and ssim_loss(a, a) is 0.
C9_SelfSimilarityIsOne ==
    SameImages => (score.forward = One /\ score.ssim_loss = Zero)

\* the window holds numbers: no weight is a NaN
WindowDefined ==
    \A u \in 1..ssim.window_size : \A v \in 1..ssim.window_size :
        ~IsNaN(ssim.window.data[u][v])

\* C9 as amended: the same for every window_size and sigma whose Gaussian
\* window is defined; sigma = 0, and a sigma so small that every weight
\* underflows to 0, give a NaN window (0/0 in the normalisation), and the
\* score is then NaN.
C9_SelfSimilarityIsOneIfWindowDefined ==
    (SameImages /\ WindowDefined) => (score.forward = One /\ score.ssim_loss = Zero)

\* C9 witness: a non-constant image scored against itself under a window of
\* three taps.
C9_Witness ==
    /\ SameImages
    /\ WindowDefined
    /\ ssim.window_size = 3
    /\ imgs[1] = <<<<Zero, One>>>>
    /\ score.forward = One

\* ------------------- specification: make_noisy, then one denoise_at_t
\* clean pixel values in [-1, 1]
CleanVals == {FNeg(One), FNeg(Rat(1, 4)), Zero, Rat(1, 2), One}

\* make_noisy(x_zeros, t) on a batch of one clean image, any t in [0, T)
RtMakeNoisy ==
    /\ pc = "ready"
    /\ \E x \in [1..1 -> CleanVals], ts \in 0..(self.n_times - 1),
          epsilon \in [1..1 -> RandnVals] :
          rt' = [x_zeros |-> x, t |-> ts, epsilon |-> epsilon,
                 noisy |-> MakeNoisy(self, x, <<ts>>, epsilon),
                 result |-> <<>>]
    /\ pc' = "noised"
    /\ UNCHANGED <<raised, diffVars, sampleVars, callVars, trainVars, ssimVars>>

\* denoise_at_t(noisy, t, t) with a network that returns the epsilon that
\* make_noisy drew
RtDenoise ==
    /\ pc = "noised"
    /\ \E zdraw \in (IF DrawsNoise(rt.t) THEN [1..1 -> RandnVals] ELSE {<<Zero>>}) :
          rt' = [rt EXCEPT !.result =
                    DenoiseAtT(self, rt.noisy, <<rt.t>>, rt.t, rt.epsilon, zdraw)]
    /\ pc' = "denoised"
    /\ UNCHANGED <<raised, diffVars, sampleVars, callVars, trainVars, ssimVars>>

RoundTripNext == Construct \/ RtMakeNoisy \/ RtDenoise

SpecRoundTrip == SpecInit /\ [][RoundTripNext]_vars

\* the floating tolerance: 32 units in the last place of 1
Tol == Rat(1, 2^(Prec - 6))

\* |a - b| <= Tol
Close(a, b) == FLe(FSub(a, b), Tol) /\ FLe(FSub(b, a), Tol)

RoundTripDone == pc = "denoised"

\* C7 as stated: for every t in [0, T), one reverse update on the noisy
\* image with the known epsilon gives back the clean image within tolerance
\* (here on the schedules whose coefficients are all well defined).
C7_RoundTripEveryStep ==
    (RoundTripDone /\ NonDegenerate(self)) => Close(rt.result[1], rt.x_zeros[1])

\* C7 as amended: the same at t = 0 only, where alpha_bar[0] = alpha[0] and
\* z = 0, on a schedule whose 1 - alpha[0] has not rounded to 0.  At t >= 1
\* the update returns the posterior mean, not the clean image, and at t > 1
\* it adds fresh noise as well.
C7_RoundTripAtStepZero ==
    (RoundTripDone /\ NonDegenerate(self) /\ rt.t = 0) =>
        Close(rt.result[1], rt.x_zeros[1])

\* C7 witness: a round trip at t = 0 of a grey pixel under negative noise
\* that came back within tolerance.
C7_Witness ==
    /\ RoundTripDone
    /\ NonDegenerate(self)
    /\ rt.t = 0
    /\ rt.x_zeros = <<Rat(1, 2)>>
    /\ rt.epsilon = <<FNeg(Rat(3, 2))>>
    /\ rt.noisy # rt.x_zeros
    /\ Close(rt.result[1], rt.x_zeros[1])

\* ------------------------------------------------ specification: train
\* largest epochs argument and longest loader tried
MaxEpochs == 2
MaxBatches == 2

\* loss_type arguments tried: the three supported ones and three others
LossTypes == {"mse", "mae", "ssim", "huber", "MSE", ""}

\* loaders of batches of one image of one pixel
Loaders == UNION {[1..k -> [1..1 -> ImageVals]] : k \in 0..MaxBatches}

\* what the denoiser returns during training
TrainNetVals == {FNeg(Rat(3, 2)), Rat(1, 2)}

\* a plausible slip: an unsupported loss_type falling back to the default
SelectLossDefault(lt) ==
    IF lt = "mae" THEN "L1Loss" ELSE IF lt = "ssim" THEN "SSIMLoss" ELSE "MSELoss"

\* lines 135-142: the loss selected for loss_type, "" where train raises
SelectLoss(lt) ==
    IF lt = "mse" THEN "MSELoss"
    ELSE IF lt = "mae" THEN "L1Loss"
    ELSE IF lt = "ssim" THEN "SSIMLoss"
    ELSE ""

\* the window of SSIMLoss(): window_size 11, sigma 1.5
DefaultWindow == CreateWindow(11, Rat(3, 2))

\* loss_func(pred_epsilon, epsilon) on a batch of one pixel each: nn.MSELoss,
\* nn.L1Loss, or SSIMLoss.forward
LossFunc(f, pred_epsilon, epsilon) ==
    IF f = "MSELoss"
    THEN The({FDiv(Sum(Tensor([i \in 1..Len(diff) |-> FMul(diff[i], diff[i])])),
                   FromInt(Len(diff)))
              : diff \in {Tensor([i \in 1..Len(epsilon) |->
                                    FSub(pred_epsilon[i], epsilon[i])])}})
    ELSE IF f = "L1Loss"
    THEN The({FDiv(Sum(Tensor([i \in 1..Len(diff) |-> FAbs(diff[i])])),
                   FromInt(Len(diff)))
              : diff \in {Tensor([i \in 1..Len(epsilon) |->
                                    FSub(pred_epsilon[i], epsilon[i])])}})
    ELSE SsimForward(DefaultWindow, 11, <<pred_epsilon>>, <<epsilon>>)

\* a Diffusion object exists; train's arguments are chosen
TrainInit ==
    /\ pc = "ready"
    /\ raised = ""
    /\ hyper = [beta_1 |-> Rat(1, 64), beta_T |-> Rat(1, 8), n_times |-> 2]
    /\ self = InitFields(hyper.beta_1, hyper.beta_T, hyper.n_times)
    /\ alpha_bars = InitAlphaBars(hyper.beta_1, hyper.beta_T, hyper.n_times)
    /\ NoCalls
    /\ loss_type \in LossTypes
    /\ loss_func = ""
    /\ epochs \in 0..MaxEpochs
    /\ train_loader \in Loaders
    /\ epoch = 0
    /\ batch_idx = 0
    /\ work = NoWork
    /\ loss = NaN
    /\ NoSsimUse

\* train, lines 132-142: the loss selection; an unsupported loss_type raises
\* ValueError here, before the loops
TrainBegin ==
    /\ pc = "ready"
    /\ IF SelectLoss(loss_type) = ""
       THEN /\ pc' = "raised"
            /\ raised' = "ValueError"
            /\ UNCHANGED loss_func
       ELSE /\ pc' = "epoch"
            /\ loss_func' = SelectLoss(loss_type)
            /\ UNCHANGED raised
    /\ UNCHANGED <<diffVars, sampleVars, callVars, rt, loss_type, epochs, train_loader,
                   epoch, batch_idx, work, loss, ssimVars>>

\* line 144: for epoch in range(epochs); line 159 after the last one
TrainEpoch ==
    /\ pc = "epoch"
    /\ IF epoch < epochs
       THEN /\ pc' = "batch"
            /\ batch_idx' = 0
       ELSE /\ pc' = "finished"
            /\ UNCHANGED batch_idx
    /\ UNCHANGED <<raised, diffVars, sampleVars, callVars, rt, loss_type, loss_func, epochs,
                   train_loader, epoch, work, loss, ssimVars>>

\* lines 147-156: one mini-batch (read, diffusion(x), loss, optimizer step);
\* line 158 once the loader is exhausted
TrainBatch ==
    /\ pc = "batch"
    /\ IF batch_idx < Len(train_loader)
       THEN \E ts \in [1..1 -> RandInt(0, self.n_times)] :
            \E epsilon \in [1..1 -> RandnVals] :
            \E pred_epsilon \in [1..1 -> TrainNetVals] :
               /\ fwd' = [perturbed_images |->
                             MakeNoisy(self,
                                       ScaleToMinusOneToOne(train_loader[batch_idx + 1]),
                                       ts, epsilon),
                          epsilon |-> epsilon,
                          pred_epsilon |-> pred_epsilon]
               /\ idx' = {ts[1]}
               /\ loss' = LossFunc(loss_func, pred_epsilon, epsilon)
               /\ work' = [reads |-> work.reads + 1, forwards |-> work.forwards + 1,
                           net_calls |-> work.net_calls + 1,
                           opt_steps |-> work.opt_steps + 1]
               /\ batch_idx' = batch_idx + 1
               /\ UNCHANGED <<pc, epoch>>
       ELSE /\ epoch' = epoch + 1
            /\ pc' = "epoch"
            /\ UNCHANGED <<fwd, idx, loss, work, batch_idx>>
    /\ UNCHANGED <<raised, diffVars, sampleVars, netNaN, rt, loss_type, loss_func, epochs,
                   train_loader, ssimVars>>

TrainNext == TrainBegin \/ TrainEpoch \/ TrainBatch

SpecTrain == TrainInit /\ [][TrainNext]_vars

Unsupported == loss_type \notin {"mse", "mae", "ssim"}

\* C5: train with a loss_type outside {'mse', 'mae', 'ssim'} fails with an
\* error before any compute: no mini-batch is read, neither the forward
\* process nor the network is invoked, no optimizer step is taken, and the
\* loops are never entered.
C5_UnsupportedLossFailsBeforeCompute ==
    Unsupported =>
        /\ pc \in {"ready", "raised"}
        /\ pc = "raised" => raised = "ValueError"
        /\ work = NoWork
        /\ fwd = NoForward
        /\ loss_func = ""

\* C5 witness: train has raised for 'huber' with epochs and batches to run.
C5_Witness ==
    /\ pc = "raised"
    /\ raised = "ValueError"
    /\ loss_type = "huber"
    /\ epochs > 0
    /\ Len(train_loader) > 0
    /\ work = NoWork

\* ------------- specification: concurrent SSIMLoss.forward calls on one object
\* number of threads calling forward on the shared object
Threads == 2

Dtypes == {"float32", "float16"}

Devices == {"cpu", "cuda"}

\* float16 keeps half the significant bits and half the exponent range
HalfPrec == Prec \div 2

HalfEMax == EMax \div 2

\* a number converted to float16 and held at working precision
ToHalf(a) ==
    IF ~IsFinite(a) \/ a = Zero THEN a
    ELSE LET s == Prec - HalfPrec
             r == Norm(Sgn(a[2]), RoundShr(Abs(a[2]), s), a[3] + s)
             ex == r[3] + Prec - 1
         IN  IF ~IsFinite(r) THEN r
             ELSE IF ex > HalfEMax THEN Inf(Sgn(a[2]))
             ELSE IF ex < -HalfEMax THEN Zero
             ELSE r

\* tensor.to(dtype).to(device) of a window: narrowing rounds every weight,
\* widening keeps the weights as they are
WindowTo(w, dtype, device) ==
    [dtype |-> dtype, device |-> device,
     data |-> IF dtype = "float16" /\ w.dtype # "float16"
              THEN Tensor([u \in 1..Len(w.data) |->
                      Tensor([v \in 1..Len(w.data) |-> ToHalf(w.data[u][v])])])
              ELSE w.data]

\* a thread about to call forward with images of its dtype on its device
Caller(dtype, device) ==
    [dtype |-> dtype, device |-> device, at |-> "call", converted |-> NoSsim.window,
     kernels |-> <<>>, convs |-> <<>>, raised |-> "", score |-> NaN]

ThreadsInit ==
    /\ pc = "new"
    /\ raised = ""
    /\ hyper = [beta_1 |-> Zero, beta_T |-> Zero, n_times |-> 0]
    /\ self = Unbuilt
    /\ alpha_bars = <<>>
    /\ NoCalls
    /\ NoTrain
    /\ \E ws \in 1..MaxWindow :
          ssim = [NoSsim EXCEPT !.window_size = ws, !.sigma = Rat(3, 2)]
    /\ imgs = <<<<<<Zero, One>>>>, <<<<Rat(1, 2), One>>>>>>
    /\ score = NoScore
    /\ callers \in [1..Threads -> {Caller(d, v) : d \in Dtypes, v \in Devices}]

\* line 38, right-hand side: self.window read and converted to the caller's
\* dtype and device
ThreadConvert(c) ==
    /\ pc = "ready"
    /\ callers[c].at = "call"
    /\ callers' = [callers EXCEPT ![c].converted =
                                     WindowTo(ssim.window, callers[c].dtype, callers[c].device),
                                  ![c].at = "store"]
    /\ UNCHANGED <<pc, raised, diffVars, sampleVars, callVars, rt, trainVars, ssim, imgs, score>>

\* line 38, the assignment: the converted window stored back in self.window
ThreadStore(c) ==
    /\ pc = "ready"
    /\ callers[c].at = "store"
    /\ ssim' = [ssim EXCEPT !.window = callers[c].converted]
    /\ callers' = [callers EXCEPT ![c].at = "conv"]
    /\ UNCHANGED <<pc, raised, diffVars, sampleVars, callVars, rt, trainVars, imgs, score>>

\* lines 40-44: the next F.conv2d, which reads self.window again; conv2d
\* refuses a weight whose dtype or device differs from its input's
ThreadConv(c) ==
    /\ pc = "ready"
    /\ callers[c].at = "conv"
    /\ Len(callers[c].convs) < 5
    /\ IF ssim.window.dtype = callers[c].dtype /\ ssim.window.device = callers[c].device
       THEN callers' = [callers EXCEPT
                ![c].kernels = Append(@, [dtype |-> ssim.window.dtype,
                                          device |-> ssim.window.device]),
                ![c].convs = Append(@, Conv2d(ConvInput(Len(@) + 1, imgs[1], imgs[2]),
                                              ssim.window.data, ssim.window_size \div 2))]
       ELSE callers' = [callers EXCEPT
                ![c].kernels = Append(@, [dtype |-> ssim.window.dtype,
                                          device |-> ssim.window.device]),
                ![c].raised = "RuntimeError",
                ![c].at = "raised"]
    /\ UNCHANGED <<pc, raised, diffVars, sampleVars, callVars, rt, trainVars, ssim, imgs, score>>

\* lines 46-50: the score from the five smoothed images
ThreadReturn(c) ==
    /\ pc = "ready"
    /\ callers[c].at = "conv"
    /\ Len(callers[c].convs) = 5
    /\ callers' = [callers EXCEPT
            ![c].score = SsimScore(callers[c].convs[1], callers[c].convs[2],
                                   callers[c].convs[3], callers[c].convs[4],
                                   callers[c].convs[5]),
            ![c].at = "returned"]
    /\ UNCHANGED <<pc, raised, diffVars, sampleVars, callVars, rt, trainVars, ssim, imgs, score>>

ThreadsNext ==
    \/ SsimConstruct
    \/ \E c \in 1..Threads :
          ThreadConvert(c) \/ ThreadStore(c) \/ ThreadConv(c) \/ ThreadReturn(c)

SpecSsimThreads == ThreadsInit /\ [][ThreadsNext]_vars

\* the window as __init__ cached it
CachedWindow ==
    [dtype |-> "float32", device |-> "cpu",
     data |-> CreateWindow(ssim.window_size, ssim.sigma)]

\* C6: the cached window is never mutated after construction, and under any
\* interleaving of the forward calls every convolution of a call uses a
\* window of that call's own dtype and device.
C6_CachedWindowNeverMutated ==
    pc = "ready" =>
        /\ ssim.window = CachedWindow
        /\ \A c \in 1..Threads :
              /\ callers[c].raised = ""
              /\ \A n \in 1..Len(callers[c].kernels) :
                    /\ callers[c].kernels[n].dtype = callers[c].dtype
                    /\ callers[c].kernels[n].device = callers[c].device
====
